---- MODULE Spec2Model ----
(***************************************************************************)
(* A model of notebooks/2-Pytorch-Autograd.ipynb: a Python session that    *)
(* runs the notebook's two code cells (any number of times, in any order)  *)
(* and, between cells, the statements its text cells describe: calling     *)
(* backward() again (with or without retain_graph), zeroing .grad,         *)
(* computing under torch.no_grad(), retain_grad() on the intermediate      *)
(* value, and converting a tensor to plain numbers with or without         *)
(* detach().  torch and matplotlib are not part of the repository: every   *)
(* library call is modelled by the behaviour the notebook's own text       *)
(* documents for it, and only for the calls the notebook makes.            *)
(*                                                                         *)
(* Numbers.  x = linspace(0, 5, n) is kept in units of the step            *)
(* h = 5/(n-1), so x[i] = i-1.  (x**2)[i] is then (i-1)^2 in units of h^2, *)
(* and y[i] = sin of that; y's data is kept as the argument of the sine,   *)
(* the tensor's fn field saying which function was applied.  A gradient of *)
(* y.sum() has the components c[i] * cos(x[i]^2): every gradient with      *)
(* respect to the same x shares the cosine factors, so a gradient is kept  *)
(* as its integer coefficients c[i] (2*x[i] for one pass, with respect to  *)
(* x), and adding gradients adds the coefficients.                         *)
(***************************************************************************)
EXTENDS Integers, Sequences, FiniteSets, TLC

\* Bounds of the model.
VecLen == 3       \* components of x (100 in the notebook, line 26)
MaxPasses == 3    \* backward passes accumulated into one x between resets

VARIABLES
  heap,     \* the live leaf tensors, by address
  xref,     \* the binding of the name x: an address, 0 = unbound
  tree,     \* the binding of the name y: its computation tree, or None
  dydx,     \* the binding of the name dydx, or None
  fig,      \* the curves on the current matplotlib figure
  out,      \* what the last print statement wrote, or None
  arr,      \* the plain numbers the last conversion produced, or None
  err,      \* the exception the last statement raised, or "None"
  last,     \* the statement executed last
  pc,       \* <<0, 0>> between cells, else <<cell, step>> about to run
  imported  \* whether torch and pyplot have been imported

vars == <<heap, xref, tree, dydx, fig, out, arr, err, last, pc, imported>>

\* Python's None and a present value.
None == <<>>
Some(v) == <<v>>
IsSet(o) == o # None
Val(o) == o[1]

----------------------------------------------------------------------------
\* The library calls the notebook makes.

\* torch.linspace(0, 5, n), in units of the step.
Linspace(n) == [i \in 1..n |-> i - 1]

\* torch.linspace(0, 5, n, requires_grad=True): a fresh leaf with no .grad.
\* passes counts the backward passes added into .grad since it was last
\* unset or zeroed.
NewLeaf(n) ==
  [data |-> Linspace(n), fn |-> "id", requires_grad |-> TRUE,
   grad |-> None, passes |-> 0]

TrackedIgnoringMode(input_requires_grad, grad_mode) == input_requires_grad

\* An operation's result is tracked iff autograd is on and its input is.
Tracked(input_requires_grad, grad_mode) == grad_mode /\ input_requires_grad

\* x**2
Pow2(t, grad_mode) ==
  [data |-> [i \in 1..Len(t.data) |-> t.data[i] * t.data[i]],
   fn |-> "pow",
   requires_grad |-> Tracked(t.requires_grad, grad_mode),
   grad_fn |-> IF Tracked(t.requires_grad, grad_mode) THEN "PowBackward" ELSE "None",
   retains_grad |-> FALSE,
   grad |-> None]

SinUntracked(t, grad_mode) ==
  [data |-> t.data, fn |-> "sin", requires_grad |-> FALSE, grad_fn |-> "None",
   retains_grad |-> FALSE, grad |-> None]

\* v.sin()
Sin(t, grad_mode) ==
  [data |-> t.data,
   fn |-> "sin",
   requires_grad |-> Tracked(t.requires_grad, grad_mode),
   grad_fn |-> IF Tracked(t.requires_grad, grad_mode) THEN "SinBackward" ELSE "None",
   retains_grad |-> FALSE,
   grad |-> None]

\* y = (x**2).sin(): the tree of the leaf at address g, with the mode it was
\* computed in (FALSE: inside `with torch.no_grad():`).  passes counts the
\* backward passes made through the tree.
Forward(g, leaf, grad_mode) ==
  LET v == Pow2(leaf, grad_mode)
  IN  [leaf |-> g, v |-> v, y |-> Sin(v, grad_mode), grad_mode |-> grad_mode,
       freed |-> FALSE, passes |-> 0]

\* Whether backward() has deallocated the tree's graph.
Freed(t) == t.freed

SumBackwardScalar(n) == <<1>>

\* d(y.sum())/dy: ones, of y's shape.
SumBackward(n) == [i \in 1..n |-> 1]

\* Through sin: times cos(v), the factor every coefficient carries.
SinBackward(gout) == gout

\* Through x**2: times 2*x.
PowBackward(gout, xdata) == [i \in 1..Len(gout) |-> gout[i] * 2 * xdata[i]]

\* The gradient of y.sum() with respect to the leaf, by the chain rule from
\* the root back to the leaf.
GradX(leaf) ==
  PowBackward(SinBackward(SumBackward(Len(leaf.data))), leaf.data)

Add(a, b) == [i \in 1..Len(a) |-> a[i] + b[i]]

AccumulateOverwrite(old, g) == Some(g)

\* What backward() does with a .grad field.
Accumulate(old, g) == IF IsSet(old) THEN Some(Add(Val(old), g)) ELSE Some(g)

\* y.sum() can be differentiated: y has a recorded history and the graph has
\* not been deallocated.
CanBackward(t) == t.y.requires_grad /\ ~Freed(t)

AfterPassAlwaysFrees(t, retain_graph) ==
  [t EXCEPT !.freed = TRUE, !.passes = t.passes + 1]

\* What is left of the graph after a pass.
AfterPass(t, retain_graph) ==
  [t EXCEPT !.freed = ~retain_graph, !.passes = t.passes + 1]

IntermediateGradAlways(node, g) == Accumulate(node.grad, g)

\* The .grad of the intermediate value y after a pass.
IntermediateGrad(node, g) ==
  IF node.retains_grad THEN Accumulate(node.grad, g) ELSE node.grad

\* t.detach(): an untracked tensor on the same data.
Detach(t) ==
  [data |-> t.data, fn |-> t.fn, requires_grad |-> FALSE, grad_fn |-> "None"]

GradTensorAttached(g) ==
  [data |-> g, fn |-> "grad", requires_grad |-> TRUE, grad_fn |-> "GradBackward"]

\* A gradient handed back by autograd.grad (no create_graph) or kept in .grad.
GradTensor(g) ==
  [data |-> g, fn |-> "grad", requires_grad |-> FALSE, grad_fn |-> "None"]

ToNumbersUnchecked(t) ==
  [ok |-> TRUE, val |-> Some([fn |-> t.fn, data |-> t.data])]

\* Conversion of a tensor to plain numbers, as pyplot does with its arguments:
\* refused for a requires-grad tensor.
ToNumbers(t) ==
  IF t.requires_grad
  THEN [ok |-> FALSE, val |-> None]
  ELSE [ok |-> TRUE, val |-> Some([fn |-> t.fn, data |-> t.data])]

ZeroedNot(leaf) == leaf

\* x.grad zeroed in place; an unset .grad is left alone.
Zeroed(leaf) ==
  IF IsSet(leaf.grad)
  THEN [leaf EXCEPT !.grad = Some([i \in 1..Len(leaf.data) |-> 0]), !.passes = 0]
  ELSE leaf

----------------------------------------------------------------------------
\* The session.

Idle == <<0, 0>>

\* The log entry of a statement: what ran, in which cell (0: between cells),
\* with which option (retain_graph, no_grad, detach) on which name.
Stmt(op, cell, flag, name) == [op |-> op, cell |-> cell, flag |-> flag, name |-> name]

\* The step after <<c, k>>: the next line of the cell, or back between cells
\* after its last line (7 statements in cell 1, 8 in cell 2).
CellLen(c) == IF c = 1 THEN 7 ELSE 8
NextPc(c, k) == IF k < CellLen(c) THEN <<c, k + 1>> ELSE Idle

\* An address no live leaf has.
Fresh(h) == CHOOSE a \in 1..(Cardinality(DOMAIN h) + 1) : a \notin DOMAIN h

\* The leaves still referenced once x and y are bound to xr and tr: the one
\* x names and the one y's tree hangs from.  Any other is deallocated.
Live(xr, tr) == {xr} \cup (IF IsSet(tr) THEN {Val(tr).leaf} ELSE {})

Collect(h, xr, tr) == [a \in Live(xr, tr) |-> h[a]]

Init ==
  /\ heap = <<>>
  /\ xref = 0
  /\ tree = None
  /\ dydx = None
  /\ fig = [curves |-> <<>>, legend |-> FALSE]
  /\ out = None
  /\ arr = None
  /\ err = "None"
  /\ last = Stmt("start", 0, FALSE, "")
  /\ pc = Idle
  /\ imported = FALSE

\* The user runs a code cell.  Cell 1 begins with the two imports.
RunCell(c) ==
  /\ pc = Idle
  /\ pc' = <<c, 1>>
  /\ imported' = (imported \/ c = 1)
  /\ last' = Stmt("run", c, FALSE, "")
  /\ err' = "None"
  /\ UNCHANGED <<heap, xref, tree, dydx, fig, out, arr>>

LinspaceStmtReuse(c) ==
  /\ pc = <<c, 1>>
  /\ last' = Stmt("linspace", c, FALSE, "x")
  /\ IF imported
     THEN /\ xref' = IF xref = 0 THEN Fresh(heap) ELSE xref
          /\ heap' = IF xref = 0 THEN [a \in {Fresh(heap)} |-> NewLeaf(VecLen)] ELSE heap
          /\ err' = "None"
          /\ pc' = NextPc(c, 1)
     ELSE /\ err' = "NameError"
          /\ pc' = Idle
          /\ UNCHANGED <<heap, xref>>
  /\ UNCHANGED <<tree, dydx, fig, out, arr, imported>>

\* x = torch.linspace(0, 5, 100, requires_grad=True)
\* The name torch is unbound when cell 2 runs before cell 1 ever did.
LinspaceStmt(c) ==
  /\ pc = <<c, 1>>
  /\ last' = Stmt("linspace", c, FALSE, "x")
  /\ IF imported
     THEN /\ xref' = Fresh(heap)
          /\ heap' = Collect([a \in DOMAIN heap \cup {Fresh(heap)} |->
                               IF a = Fresh(heap) THEN NewLeaf(VecLen) ELSE heap[a]],
                             Fresh(heap), tree)
          /\ err' = "None"
          /\ pc' = NextPc(c, 1)
     ELSE /\ err' = "NameError"
          /\ pc' = Idle
          /\ UNCHANGED <<heap, xref>>
  /\ UNCHANGED <<tree, dydx, fig, out, arr, imported>>

\* y = (x**2).sin()
ForwardStmt(c) ==
  /\ pc = <<c, 2>>
  /\ tree' = Some(Forward(xref, heap[xref], TRUE))
  /\ heap' = Collect(heap, xref, tree')
  /\ last' = Stmt("forward", c, FALSE, "y")
  /\ err' = "None"
  /\ pc' = NextPc(c, 2)
  /\ UNCHANGED <<xref, dydx, fig, out, arr, imported>>

\* dydx = torch.autograd.grad(y.sum(), [x])[0]
\* The gradient is returned, not stored; x must be part of y's computation.
GradStmt ==
  /\ pc = <<1, 3>>
  /\ last' = Stmt("grad", 1, FALSE, "dydx")
  /\ LET t == Val(tree)
     IN  IF CanBackward(t) /\ t.leaf = xref
         THEN /\ dydx' = Some(GradTensor(GradX(heap[xref])))
              /\ tree' = Some(AfterPass(t, FALSE))
              /\ err' = "None"
              /\ pc' = NextPc(1, 3)
         ELSE /\ err' = "RuntimeError"
              /\ pc' = Idle
              /\ UNCHANGED <<dydx, tree>>
  /\ UNCHANGED <<heap, xref, fig, out, arr, imported>>

\* y.sum().backward(retain_graph=retain_graph) on the tree bound to y:
\* refused when y has no history or the graph is gone; else the gradient is
\* added into the .grad of the tree's leaf (and of y, if it retains grad).
Backward(retain_graph) ==
  LET t == Val(tree)
      leaf == heap[t.leaf]
  IN  IF CanBackward(t)
      THEN /\ heap' = [heap EXCEPT ![t.leaf] =
                         [leaf EXCEPT !.grad = Accumulate(leaf.grad, GradX(leaf)),
                                      !.passes = leaf.passes + 1]]
           /\ tree' = Some([AfterPass(t, retain_graph) EXCEPT
                              !.y.grad = IntermediateGrad(t.y, SumBackward(Len(t.y.data)))])
           /\ err' = "None"
      ELSE /\ err' = "RuntimeError"
           /\ UNCHANGED <<heap, tree>>

\* y.sum().backward()   # populates the grad attribute below.
BackwardStmt ==
  /\ pc = <<2, 3>>
  /\ last' = Stmt("backward", 2, FALSE, "y")
  /\ Backward(FALSE)
  /\ pc' = IF CanBackward(Val(tree)) THEN NextPc(2, 3) ELSE Idle
  /\ UNCHANGED <<xref, dydx, fig, out, arr, imported>>

\* print(x.grad)
PrintStmt ==
  /\ pc = <<2, 4>>
  /\ out' = heap[xref].grad
  /\ last' = Stmt("print", 2, FALSE, "x.grad")
  /\ err' = "None"
  /\ pc' = NextPc(2, 4)
  /\ UNCHANGED <<heap, xref, tree, dydx, fig, arr, imported>>

\* x.grad as the tensor a statement reads, or None while unset.
GradField(leaf) == IF IsSet(leaf.grad) THEN Some(GradTensor(Val(leaf.grad))) ELSE None

\* The two tensors a plot statement hands to plt.plot.
\*   plt.plot(x.detach(), y.detach(), label='y')
\*   plt.plot(x.detach(), dydx, label='dy/dx')      (cell 1)
\*   plt.plot(x.detach(), x.grad, label='dy/dx')    (cell 2)
PlotArgs(c, label) ==
  <<Some(Detach(heap[xref])),
    IF label = "y" THEN Some(Detach(Val(tree).y))
    ELSE IF c = 1 THEN dydx
    ELSE GradField(heap[xref])>>

\* plt.plot(a, b, label=label): both arguments are converted to plain
\* numbers; a refused conversion raises and nothing is drawn.
Plot(c, label, k) ==
  LET args == PlotArgs(c, label)
      ok == /\ IsSet(args[1]) /\ IsSet(args[2])
            /\ ToNumbers(Val(args[1])).ok /\ ToNumbers(Val(args[2])).ok
  IN  /\ pc = <<c, k>>
      /\ last' = Stmt("plot", c, FALSE, label)
      /\ IF ok
         THEN /\ fig' = [fig EXCEPT !.curves =
                           Append(@, [label |-> label,
                                      xs |-> Val(ToNumbers(Val(args[1])).val),
                                      ys |-> Val(ToNumbers(Val(args[2])).val)])]
              /\ err' = "None"
              /\ pc' = NextPc(c, k)
         ELSE /\ err' = IF IsSet(args[1]) /\ IsSet(args[2])
                         THEN "RuntimeError" ELSE "ValueError"
              /\ pc' = Idle
              /\ UNCHANGED fig
      /\ UNCHANGED <<heap, xref, tree, dydx, out, arr, imported>>

PlotYStmt(c) == Plot(c, "y", IF c = 1 THEN 4 ELSE 5)

PlotGradStmt(c) == Plot(c, "dy/dx", IF c = 1 THEN 5 ELSE 6)

\* plt.legend()
LegendStmt(c) ==
  /\ pc = <<c, CellLen(c) - 1>>
  /\ fig' = [fig EXCEPT !.legend = TRUE]
  /\ last' = Stmt("legend", c, FALSE, "")
  /\ err' = "None"
  /\ pc' = NextPc(c, CellLen(c) - 1)
  /\ UNCHANGED <<heap, xref, tree, dydx, out, arr, imported>>

\* plt.show(): the figure is rendered and a new, empty one begun.
ShowStmt(c) ==
  /\ pc = <<c, CellLen(c)>>
  /\ fig' = [curves |-> <<>>, legend |-> FALSE]
  /\ last' = Stmt("show", c, FALSE, "")
  /\ err' = "None"
  /\ pc' = NextPc(c, CellLen(c))
  /\ UNCHANGED <<heap, xref, tree, dydx, out, arr, imported>>

----------------------------------------------------------------------------
\* The statements the text cells describe, run between the code cells.

\* y.sum().backward() or y.sum().backward(retain_graph=True), once more.
BackwardAgain(retain_graph) ==
  /\ pc = Idle
  /\ IsSet(tree)
  /\ heap[Val(tree).leaf].passes < MaxPasses
  /\ Val(tree).passes < MaxPasses
  /\ last' = Stmt("backward", 0, retain_graph, "y")
  /\ Backward(retain_graph)
  /\ UNCHANGED <<xref, dydx, fig, out, arr, pc, imported>>

\* y = (x**2).sin() once more, inside `with torch.no_grad():` or not.
ForwardAgain(no_grad) ==
  /\ pc = Idle
  /\ xref # 0
  /\ tree' = Some(Forward(xref, heap[xref], ~no_grad))
  /\ heap' = Collect(heap, xref, tree')
  /\ last' = Stmt("forward", 0, no_grad, "y")
  /\ err' = "None"
  /\ UNCHANGED <<xref, dydx, fig, out, arr, pc, imported>>

\* optim.zero_grad(): every parameter's .grad is set to zero.  The session's
\* parameters are its leaf tensors.
ZeroGrad ==
  /\ pc = Idle
  /\ xref # 0
  /\ heap' = [a \in DOMAIN heap |-> Zeroed(heap[a])]
  /\ last' = Stmt("zero_grad", 0, FALSE, "")
  /\ err' = "None"
  /\ UNCHANGED <<xref, tree, dydx, fig, out, arr, pc, imported>>

\* y.retain_grad(): y is the intermediate value of y.sum().  A y without
\* history (computed under no_grad) has no gradient to retain: the call raises.
RetainGrad ==
  /\ pc = Idle
  /\ IsSet(tree)
  /\ last' = Stmt("retain_grad", 0, FALSE, "y")
  /\ IF Val(tree).y.requires_grad
     THEN /\ tree' = Some([Val(tree) EXCEPT !.y.retains_grad = TRUE])
          /\ err' = "None"
     ELSE /\ err' = "RuntimeError"
          /\ UNCHANGED tree
  /\ UNCHANGED <<heap, xref, dydx, fig, out, arr, pc, imported>>

\* The tensor bound to a name.
Named(name) == IF name = "x" THEN heap[xref] ELSE Val(tree).y

\* Using x or y as plain numbers, directly or through detach().
Convert(name, detached) ==
  LET t == IF detached THEN Detach(Named(name)) ELSE Named(name)
      r == ToNumbers(t)
  IN  /\ pc = Idle
      /\ IF name = "x" THEN xref # 0 ELSE IsSet(tree)
      /\ last' = Stmt("convert", 0, detached, name)
      /\ IF r.ok
         THEN arr' = r.val /\ err' = "None"
         ELSE arr' = arr /\ err' = "RuntimeError"
      /\ UNCHANGED <<heap, xref, tree, dydx, fig, out, pc, imported>>

Next ==
  \/ \E c \in {1, 2} : RunCell(c)
  \/ \E c \in {1, 2} : LinspaceStmt(c)
  \/ \E c \in {1, 2} : ForwardStmt(c)
  \/ GradStmt
  \/ BackwardStmt
  \/ PrintStmt
  \/ \E c \in {1, 2} : PlotYStmt(c)
  \/ \E c \in {1, 2} : PlotGradStmt(c)
  \/ \E c \in {1, 2} : LegendStmt(c)
  \/ \E c \in {1, 2} : ShowStmt(c)
  \/ \E r \in BOOLEAN : BackwardAgain(r)
  \/ \E n \in BOOLEAN : ForwardAgain(n)
  \/ ZeroGrad
  \/ RetainGrad
  \/ \E name \in {"x", "y"}, d \in BOOLEAN : Convert(name, d)

Spec == Init /\ [][Next]_vars

----------------------------------------------------------------------------
\* Properties.

\* k times a gradient.
Scale(k, g) == [i \in 1..Len(g) |-> k * g[i]]

Zeros(n) == [i \in 1..n |-> 0]

\* The step is a backward() statement that the library accepts: y has a
\* recorded history and its graph has not been deallocated.
BackwardAccepted == last'.op = "backward" /\ CanBackward(Val(tree))

\* The step is a backward() statement that the library refuses.
BackwardRefused == last'.op = "backward" /\ ~CanBackward(Val(tree))

\* The leaf a backward() statement of this step differentiates against.
Target == Val(tree).leaf

C1_Step ==
  (BackwardAccepted /\ IsSet(heap[Target].grad)) =>
     /\ err' = "None"
     /\ heap'[Target].grad =
          Some(Add(Val(heap[Target].grad), GradX(heap[Target])))

C1_Sum ==
  \A a \in DOMAIN heap :
     /\ IsSet(heap[a].grad) =>
          heap[a].grad = Some(Scale(heap[a].passes, GradX(heap[a])))
     /\ heap[a].passes >= 2 => heap[a].grad # Some(GradX(heap[a]))

C4_Step ==
  BackwardAccepted =>
     /\ IsSet(heap'[Target].grad)
     /\ Len(Val(heap'[Target].grad)) = Len(heap[Target].data)

C4_Shape ==
  \A a \in DOMAIN heap :
     IsSet(heap[a].grad) => Len(Val(heap[a].grad)) = Len(heap[a].data)

C4_Cell ==
  pc = <<2, 4>> =>
     /\ heap[xref].requires_grad
     /\ heap[xref].grad = Some(GradX(heap[xref]))
     /\ Len(Val(heap[xref].grad)) = VecLen

\* C4: a backward() call that succeeds stores the gradient in the .grad of
\* the requires-grad input x, with as many components as x; in cell 2, once
\* y.sum().backward() has run, x.grad is set, is the gradient of y.sum(),
\* and has every component of x.
C4_Populates == [][C4_Step]_vars /\ [](C4_Shape /\ C4_Cell)

\* Cell 2 has just run its backward() and is about to print x.grad.
C4_Witness == pc = <<2, 4>> /\ last.op = "backward" /\ err = "None"

C5_Backward ==
  BackwardAccepted =>
     LET old == heap[Target].grad
         g == GradX(heap[Target])
     IN  IF ~IsSet(old) \/ old = Some(Zeros(Len(g)))
         THEN heap'[Target].grad = Some(g)
         ELSE /\ heap'[Target].grad = Some(Add(Val(old), g))
              /\ heap'[Target].grad # Some(g)

C5_Zero ==
  last'.op = "zero_grad" =>
     \A a \in DOMAIN heap :
        /\ a \in DOMAIN heap'
        /\ heap'[a].data = heap[a].data
        /\ IsSet(heap[a].grad) => heap'[a].grad = Some(Zeros(Len(heap[a].data)))
        /\ ~IsSet(heap[a].grad) => ~IsSet(heap'[a].grad)

\* C5: zero_grad() sets the .grad of every parameter that has one to zero;
\* a backward() that then succeeds leaves x.grad equal to the new gradient
\* alone, while one that finds a nonzero x.grad adds the new gradient to it.
C5_Zeroing == [][C5_Backward /\ C5_Zero]_vars

\* A pass, a reset, and a pass through the same retained graph: x.grad holds
\* one gradient although two passes were made.
C5_Witness ==
  /\ last.op = "backward" /\ err = "None"
  /\ IsSet(tree) /\ Val(tree).passes = 2
  /\ heap[Val(tree).leaf].passes = 1
  /\ heap[Val(tree).leaf].grad = Some(GradX(heap[Val(tree).leaf]))

C2_NoHistory ==
  (IsSet(tree) /\ ~Val(tree).grad_mode) =>
     /\ ~Val(tree).v.requires_grad /\ Val(tree).v.grad_fn = "None"
     /\ ~Val(tree).y.requires_grad /\ Val(tree).y.grad_fn = "None"

C2_Step ==
  (last'.op = "backward" /\ ~Val(tree).grad_mode) =>
     /\ err' = "RuntimeError"
     /\ heap' = heap
     /\ tree' = tree

\* C2: a y computed inside `with torch.no_grad():` carries no history
\* (neither it nor the intermediate value requires grad or has a grad_fn),
\* and backward() on it raises and stores nothing in any .grad.
C2_NoGrad == []C2_NoHistory /\ [][C2_Step]_vars

\* backward() has just been refused on a y computed under no_grad.
C2_Witness ==
  /\ last.op = "backward" /\ err = "RuntimeError"
  /\ IsSet(tree) /\ ~Val(tree).grad_mode

C3_Step ==
  /\ (BackwardAccepted /\ ~last'.flag) => Freed(Val(tree'))
  /\ (BackwardAccepted /\ last'.flag) => ~Freed(Val(tree'))
  /\ (last'.op = "backward" /\ Freed(Val(tree))) =>
        err' = "RuntimeError" /\ heap' = heap /\ tree' = tree
  /\ (last'.op = "backward" /\ Val(tree).grad_mode /\ ~Freed(Val(tree))) =>
        err' = "None" /\ Val(tree').passes = Val(tree).passes + 1

C3_State ==
  IsSet(tree) =>
     /\ Val(tree).passes = 0 => ~Freed(Val(tree))
     /\ (Val(tree).passes >= 1 /\ last.op = "backward" /\ err = "None") =>
          Freed(Val(tree)) = ~last.flag

\* C3: a pass without retain_graph=True deallocates the graph, and a further
\* backward() on that tree is refused and changes nothing; a pass with
\* retain_graph=True keeps the graph, and a further backward() on the tree
\* is carried out.
C3_Retention == [][C3_Step]_vars /\ []C3_State

\* A tree that took two passes (the first with retain_graph=True, the second
\* without) has just refused a third.
C3_Witness ==
  /\ last.op = "backward" /\ err = "RuntimeError"
  /\ IsSet(tree) /\ Val(tree).grad_mode
  /\ Val(tree).passes = 2 /\ Freed(Val(tree))

C8_State ==
  /\ IsSet(tree) =>
        /\ ~IsSet(Val(tree).v.grad)
        /\ ~Val(tree).y.retains_grad => ~IsSet(Val(tree).y.grad)
  /\ \A a \in DOMAIN heap : heap[a].passes >= 1 => IsSet(heap[a].grad)

C8_Step ==
  BackwardAccepted =>
     /\ IsSet(heap'[Target].grad)
     /\ ~IsSet(Val(tree').v.grad)
     /\ IF Val(tree).y.retains_grad
        THEN Val(tree').y.grad =
               Accumulate(Val(tree).y.grad, SumBackward(Len(Val(tree).y.data)))
        ELSE ~IsSet(Val(tree').y.grad)

\* C8: a backward() pass stores a gradient in the .grad of the leaf x; the
\* .grad of the intermediate values stays unset, except that of y once
\* y.retain_grad() was called before the pass, which then is stored too.
C8_Intermediate == []C8_State /\ [][C8_Step]_vars

\* Two passes through one tree, retain_grad() called between them: y.grad
\* holds the gradient of the second pass only.
C8_Witness ==
  /\ last.op = "backward" /\ err = "None"
  /\ IsSet(tree) /\ Val(tree).passes = 2
  /\ Val(tree).y.retains_grad
  /\ Val(tree).y.grad = Some(SumBackward(Len(Val(tree).y.data)))

C7_Step ==
  last'.op = "convert" =>
     LET t == Named(last'.name)
     IN  /\ (~last'.flag /\ t.requires_grad) =>
               err' = "RuntimeError" /\ arr' = arr
         /\ last'.flag =>
               /\ ~Detach(t).requires_grad
               /\ Detach(t).data = t.data
               /\ err' = "None"
               /\ arr' = Some([fn |-> t.fn, data |-> t.data])

\* C7: using a requires-grad tensor as plain numbers is refused and yields
\* nothing; through detach(), which gives an untracked tensor on the same
\* data, the conversion succeeds and yields that data.
C7_Detach == [][C7_Step]_vars

\* A conversion of a requires-grad tensor has just been refused, after one
\* through detach() had gone through.
C7_Witness ==
  /\ last.op = "convert" /\ ~last.flag /\ err = "RuntimeError"
  /\ Named(last.name).requires_grad
  /\ IsSet(arr)

\* C9: cell 1 leaves x.grad unset (autograd.grad returns the gradient);
\* cell 2 starts from a fresh x with no .grad and a fresh tree, so the
\* x.grad it prints and plots is the gradient of one pass, the same on
\* every run of the cell.
C9_SinglePass ==
  /\ pc = <<1, 4>> =>
        /\ ~IsSet(heap[xref].grad)
        /\ dydx = Some(GradTensor(GradX(heap[xref])))
  /\ pc = <<2, 3>> =>
        /\ ~IsSet(heap[xref].grad)
        /\ Val(tree).leaf = xref /\ Val(tree).passes = 0
  /\ (pc[1] = 2 /\ pc[2] >= 4) =>
        /\ heap[xref].passes = 1
        /\ heap[xref].grad = Some(GradX(NewLeaf(VecLen)))
  /\ last.op = "print" => IsSet(out)
  /\ IsSet(out) => out = Some(GradX(NewLeaf(VecLen)))

\* Cell 2 is about to print x.grad on a later run: an earlier run's output
\* is still there and equals it.
C9_Witness ==
  /\ pc = <<2, 4>> /\ last.op = "backward" /\ err = "None"
  /\ IsSet(out) /\ out = heap[xref].grad

PlotSteps(c) == IF c = 1 THEN {<<"y", 4>>, <<"dy/dx", 5>>} ELSE {<<"y", 5>>, <<"dy/dx", 6>>}

\* C10: at each plt.plot call of the two cells both arguments are tensors
\* that do not require grad, so no statement of a cell ends in the refused
\* conversion (the one exception a cell can raise is the NameError of cell 2
\* run before the imports of cell 1).
C10_PlotsUntracked ==
  /\ \A c \in {1, 2} : \A p \in PlotSteps(c) :
        pc = <<c, p[2]>> =>
           \A i \in {1, 2} :
              /\ IsSet(PlotArgs(c, p[1])[i])
              /\ ~Val(PlotArgs(c, p[1])[i]).requires_grad
  /\ last.op = "plot" => err = "None"
  /\ last.cell \in {1, 2} => err \in {"None", "NameError"}

\* Cell 2 has drawn its second curve, x.grad against x.
C10_Witness ==
  /\ last.op = "plot" /\ last.cell = 2 /\ last.name = "dy/dx"
  /\ err = "None" /\ Len(fig.curves) = 2

====
